---------------------------- MODULE Spec2Model ----------------------------
(***************************************************************************)
(* A model of ginga's AstroImage (src/AstroImage.py) and CanvasMixin       *)
(* (src/ginga/canvas/CanvasMixin.py).                                      *)
(*                                                                         *)
(* Seven specifications share the module:                                  *)
(*   SpecImage   one image entity: header keywords, metadata, WCS reload,  *)
(*               load_hdu / load_file / update_hdu;                        *)
(*   SpecInline  mosaic_inline called on a destination image;              *)
(*   SpecMosaic  mosaic from a file list and mosaic1 from an image list;   *)
(*   SpecCanvas  canvases containing canvases and the propagation of the   *)
(*               'modified' callback;                                      *)
(*   SpecCalc    dispos, get_RaDecOffsets and cutout_cross applied to      *)
(*               arguments drawn from small sets;                          *)
(*   SpecCopy    an image and its copy(), with the arrays and header       *)
(*               dictionaries they refer to;                               *)
(*   SpecTags    add and the deletions on canvases, tags, and 'modified'.  *)
(*                                                                         *)
(* Conventions.  A Python str is a sequence of one-character strings, so   *)
(* that str.upper() is computed.  A dict is a function whose domain is the *)
(* set of its keys.  A numpy array is a record [shape, px] with px a       *)
(* function from 0-based index tuples; a 2-D index is <<y, x>>.  A method  *)
(* is an operator from the object (and arguments) to a record              *)
(* [img, exc, ret]: the object after the call, the exception that left it  *)
(* ("none" when it returned) and the value returned.  Header dictionaries  *)
(* are held by value inside the image record: sharing of one dictionary    *)
(* between two images is not represented in this part of the model.        *)
(***************************************************************************)
EXTENDS Integers, Sequences, FiniteSets, TLC

VARIABLES
    img,        \* SpecImage: the image entity
    lastOp,     \* SpecImage: the last call, its arguments, outcome and the image before it
    dest,       \* SpecInline: the destination image of mosaic_inline
    inl,        \* SpecInline: the last mosaic_inline call and what it did
    mres,       \* SpecMosaic: the last mosaic / mosaic1 call and what it did
    cv,         \* SpecCanvas: the canvases, their callbacks and the call stack
    calc,       \* SpecCalc: the last call of a calculation and what it returned
    heap        \* SpecCopy: the images, and the arrays and dictionaries they refer to

vars == <<img, lastOp, dest, inl, mres, cv, calc, heap>>

\* Python's None, by the kind of value it stands in for: a name (a str), an array,
\* an optional argument (a tuple of zero or one value), a method's "no value".
None     == "None"
NoData   == [shape |-> <<>>, px |-> [t \in {} |-> 0], isnone |-> TRUE]
NoArg    == <<>>
NoReturn == <<>>

-----------------------------------------------------------------------------
(* Python strings *)

LowerCase == <<"a","b","c","d","e","f","g","h","i","j","k","l","m",
               "n","o","p","q","r","s","t","u","v","w","x","y","z">>
UpperCase == <<"A","B","C","D","E","F","G","H","I","J","K","L","M",
               "N","O","P","Q","R","S","T","U","V","W","X","Y","Z">>

\* str.upper() on one character
UpperChar(c) ==
    IF \E i \in DOMAIN LowerCase : LowerCase[i] = c
    THEN UpperCase[CHOOSE i \in DOMAIN LowerCase : LowerCase[i] = c]
    ELSE c

\* str.upper()
Upper(s) == [i \in DOMAIN s |-> UpperChar(s[i])]

\* str.startswith
StartsWith(s, p) == Len(s) >= Len(p) /\ SubSeq(s, 1, Len(p)) = p

-----------------------------------------------------------------------------
(* Python dicts *)

EmptyDict == [x \in {} |-> None]

\* d[k] = v
DictSet(d, k, v) == (k :> v) @@ d

\* del d[k]
DictDel(d, k) == [x \in (DOMAIN d) \ {k} |-> d[x]]

\* d.update(e)
DictUpdate(d, e) == e @@ d


-----------------------------------------------------------------------------
(* numpy arrays *)

\* The index tuples of an array of the given shape (0-based, one entry per axis).
RECURSIVE Indices(_)
Indices(shape) ==
    IF Len(shape) = 0 THEN {<<>>}
    ELSE {<<i>> \o t : i \in 0..(shape[1] - 1), t \in Indices(Tail(shape))}

\* data[idx] on the first axis (idx in range)
ArrayIndex(a, idx) ==
    [shape |-> Tail(a.shape),
     px    |-> [t \in Indices(Tail(a.shape)) |-> a.px[<<idx>> \o t]],
     isnone |-> FALSE]

\* data.reshape((1, n)) of a 1-D array
Reshape1xN(a) ==
    [shape |-> <<1, a.shape[1]>>,
     px    |-> [t \in Indices(<<1, a.shape[1]>>) |-> a.px[<<t[2]>>]],
     isnone |-> FALSE]

\* numpy.zeros((height, width))
Zeros(height, width) ==
    [shape |-> <<height, width>>,
     px    |-> [t \in Indices(<<height, width>>) |-> 0],
     isnone |-> FALSE]

-----------------------------------------------------------------------------
(* The image entity: AstroImage on top of BaseImage *)

\* What a method did: the object after it, the exception that left it, its value.
Ok(i, r)    == [img |-> i, exc |-> "none", ret |-> r]
Raise(i, e) == [img |-> i, exc |-> e, ret |-> NoReturn]

\* AstroImage(): no pixel data, empty metadata, a WCS adapter with no header.
NewImage == [data |-> NoData, metadata |-> EmptyDict, wcs |-> EmptyDict]

\* wcs.load_header(header): the adapter keeps its own copy of the header's items.
wcs_load_header(i, header) == [i EXCEPT !.wcs = header]

\* BaseImage.set(**kwds)
image_set(i, kwds) == [i EXCEPT !.metadata = DictUpdate(@, kwds)]

\* BaseImage.get(kwd, default)
image_get(i, kwd, default) ==
    IF kwd \in DOMAIN i.metadata THEN i.metadata[kwd] ELSE default

\* BaseImage.set_data(data_np)
set_data(i, data_np) == [i EXCEPT !.data = data_np]

get_header(i, create) ==
    IF "header" \in DOMAIN i.metadata THEN Ok(i, i.metadata["header"])
    ELSE IF ~create THEN Raise(i, "KeyError")
    ELSE Ok([i EXCEPT !.metadata = DictSet(@, "header", EmptyDict)], EmptyDict)

\* args is the tuple of optional positional arguments (the default, if any).
get_keyword(i, kwd, args) ==
    LET h == get_header(i, TRUE)
    IN  IF kwd \in DOMAIN h.ret THEN Ok(h.img, h.ret[kwd])
        ELSE IF Len(args) > 0 THEN Ok(h.img, args[1])
        ELSE Raise(h.img, "KeyError")

set_keyword(i, kwd, value, create) ==
    LET h == get_header(i, create)
    IN  IF h.exc # "none" THEN h
        ELSE LET k == Upper(kwd)
             IN  IF ~create /\ k \notin DOMAIN h.ret THEN Raise(h.img, "KeyError")
                 ELSE Ok([h.img EXCEPT !.metadata["header"] = DictSet(@, k, value)], NoReturn)

\* for kwd, val in items: hdr[kwd.upper()] = val   (items in iteration order)
RECURSIVE UpcaseInto(_, _)
UpcaseInto(hdr, items) ==
    IF items = <<>> THEN hdr
    ELSE UpcaseInto(DictSet(hdr, Upper(items[1][1]), items[1][2]), Tail(items))

\* keyDict is given as keyDict.items(), in the order the loop visits them.
update_keywords(i, items) ==
    LET h   == get_header(i, TRUE)
        hdr == UpcaseInto(h.ret, items)
        i2  == [h.img EXCEPT !.metadata["header"] = hdr]
    IN  Ok(wcs_load_header(i2, hdr), NoReturn)

set_keywords(i, items) == update_keywords(i, items)

\* data_np.copy() of None raises; otherwise the copy becomes the image's data.
update_data(i, data_np) ==
    IF data_np.isnone THEN Raise(i, "AttributeError")
    ELSE Ok(set_data(i, data_np), NoReturn)

update_metadata(i, keyDict) ==
    LET i2 == [i EXCEPT !.metadata = DictUpdate(@, keyDict)]
        h  == get_header(i2, TRUE)
    IN  Ok(wcs_load_header(h.img, h.ret), NoReturn)

\* dict(header.items()) as the WCS adapter reads an HDU's header
RECURSIVE ItemsDict(_)
ItemsDict(items) ==
    IF items = <<>> THEN EmptyDict
    ELSE DictUpdate([k \in {items[1][1]} |-> items[1][2]], ItemsDict(Tail(items)))

\* An HDU is [data, header]: header is the sequence header.items().
update_hdu(i, hdu) ==
    LET d == update_data(i, hdu.data)
    IN  IF d.exc # "none" THEN d
        ELSE LET k == update_keywords(d.img, hdu.header)
             IN  Ok(wcs_load_header(k.img, ItemsDict(hdu.header)), NoReturn)

\* for idx in naxispath: data = data[idx]
RECURSIVE IndexPath(_, _)
IndexPath(data, naxispath) ==
    IF naxispath = <<>> THEN Ok(data, NoReturn)
    ELSE IF Len(data.shape) = 0 \/ naxispath[1] >= data.shape[1]
         THEN Raise(data, "IndexError")
         ELSE IndexPath(ArrayIndex(data, naxispath[1]), Tail(naxispath))

load_hdu(i, hdu, naxispath) ==
    IF hdu.data.isnone THEN Raise(i, "AttributeError")
    ELSE
    LET nd   == Len(hdu.data.shape)
        path == IF naxispath = <<>>
                THEN [k \in 1..(nd - 2) |-> 0] ELSE naxispath
        d    == IF nd < 2 THEN Ok(Reshape1xN(hdu.data), NoReturn)
                ELSE IndexPath(hdu.data, path)
    IN  IF d.exc # "none" THEN Raise(i, d.exc)
        ELSE LET i1 == set_data(i, d.img)
                 i2 == update_keywords(i1, hdu.header).img
                 keyorder == [k \in DOMAIN hdu.header |-> hdu.header[k][1]]
                 i3 == image_set(i2, [x \in {"keyorder"} |-> keyorder])
             IN  Ok(wcs_load_header(i3, ItemsDict(hdu.header)), NoReturn)

\* The first HDU whose data is a numpy array, 0 when there is none.
FirstValidHdu(fits_f) ==
    IF \E n \in DOMAIN fits_f : ~fits_f[n].data.isnone /\ fits_f[n].isarray
    THEN CHOOSE n \in DOMAIN fits_f :
            /\ ~fits_f[n].data.isnone /\ fits_f[n].isarray
            /\ \A m \in 1..(n - 1) : (fits_f[m].data.isnone \/ ~fits_f[m].isarray)
    ELSE 0

\* A file on disk is [exists, verifies, hdus]; filepath is [dir, base, ext]; an HDU
\* is [data, isarray, header].  numhdu is <<>> (None) or <<n>>, n a 0-based index;
\* naxispath is <<>> (None or empty) or the tuple of indices.
load_file(i, fs, filepath, numhdu, naxispath) ==
    LET i1 == image_set(i, [x \in {"path"} |-> filepath])
        f  == fs[filepath]
    IN  IF ~f.exists THEN Raise(i1, "IOError")
        ELSE IF ~f.verifies THEN Raise(i1, "NameError")
        ELSE IF numhdu = NoArg /\ FirstValidHdu(f.hdus) = 0 THEN Raise(i1, "ImageError")
        ELSE IF numhdu # NoArg /\ numhdu[1] >= Len(f.hdus) THEN Raise(i1, "IndexError")
        ELSE LET hdu == IF numhdu = NoArg THEN f.hdus[FirstValidHdu(f.hdus)]
                        ELSE f.hdus[numhdu[1] + 1]
                 l   == load_hdu(i1, hdu, naxispath)
             IN  IF l.exc # "none" THEN l
                 ELSE IF image_get(l.img, "name", None) = None
                      THEN Ok(image_set(l.img, [x \in {"name"} |-> filepath.base]), NoReturn)
                      ELSE l

-----------------------------------------------------------------------------
(* Floats, and the WCS adapter *)

\* Pixel coordinates, reference pixels and sky angles are Python floats: here
\* fixed-point numbers with Unit steps to the pixel (and to the degree).
Unit == 2

ToFloat(n) == n * Unit

\* int(round(v)): Python 2 rounds half away from zero.
IntRound(v) ==
    IF v >= 0 THEN (2 * v + Unit) \div (2 * Unit)
    ELSE -((2 * (-v) + Unit) \div (2 * Unit))

Min2(a, b) == IF a < b THEN a ELSE b
Max2(a, b) == IF a > b THEN a ELSE b
Abs(a)     == IF a < 0 THEN -a ELSE a

kCRPIX1 == <<"C", "R", "P", "I", "X", "1">>
kCRPIX2 == <<"C", "R", "P", "I", "X", "2">>
kCRVAL1 == <<"C", "R", "V", "A", "L", "1">>
kCRVAL2 == <<"C", "R", "V", "A", "L", "2">>
kCDELT1 == <<"C", "D", "E", "L", "T", "1">>
kCDELT2 == <<"C", "D", "E", "L", "T", "2">>
kNAXIS1 == <<"N", "A", "X", "I", "S", "1">>
kNAXIS2 == <<"N", "A", "X", "I", "S", "2">>
kOBJECT == <<"O", "B", "J", "E", "C", "T">>

WcsKeys == {kCRPIX1, kCRPIX2, kCRVAL1, kCRVAL2, kCDELT1, kCDELT2}

\* The adapter can transform once it was loaded from a header with the projection
\* keywords; otherwise its transforms raise.
HasWcs(i) == WcsKeys \subseteq DOMAIN i.wcs

\* Right ascension runs over [0, 360) degrees.
FullCircle == ToFloat(360)

\* An angle difference brought into [-180, 180) degrees.
WrapAngle(d) == ((d + FullCircle \div 2) % FullCircle) - FullCircle \div 2

\* wcs.pixtoradec(x, y) -> <<ra, dec>> in degrees, for an axis-aligned linear
\* projection: CDELTn is +1 or -1 degree per pixel, CRPIXn the pixel of (CRVAL1, CRVAL2).
pixtoradec(i, x, y) ==
    LET h == i.wcs
    IN  << (h[kCRVAL1] + h[kCDELT1] * (x - h[kCRPIX1])) % FullCircle,
           h[kCRVAL2] + h[kCDELT2] * (y - h[kCRPIX2]) >>

\* wcs.radectopix(ra, dec) -> <<x, y>>, the inverse of pixtoradec
radectopix(i, ra_deg, dec_deg) ==
    LET h == i.wcs
    IN  << h[kCRPIX1] + h[kCDELT1] * WrapAngle(ra_deg - h[kCRVAL1]),
           h[kCRPIX2] + h[kCDELT2] * (dec_deg - h[kCRVAL2]) >>

-----------------------------------------------------------------------------
(* numpy: flips and slice assignment *)

Height(a) == a.shape[1]
Width(a)  == a.shape[2]

\* numpy.fliplr / numpy.flipud of a 2-D array
fliplr(a) == [a EXCEPT !.px = [t \in DOMAIN a.px |-> a.px[<<t[1], Width(a) - 1 - t[2]>>]]]
flipud(a) == [a EXCEPT !.px = [t \in DOMAIN a.px |-> a.px[<<Height(a) - 1 - t[1], t[2]>>]]]

\* One bound of a slice on an axis of length n: a negative bound counts from the
\* end, and the result is clipped to 0..n.
SliceBound(v, n) ==
    IF v < 0 THEN Max2(v + n, 0) ELSE Min2(v, n)

\* a[y0:y1, x0:x1] = v: the slice is the rows lo..hi-1 the bounds select (none when
\* hi <= lo); v must have the slice's shape, an axis of length 1 being broadcast;
\* otherwise numpy raises ValueError and a is untouched.
SetSlice(a, y0, y1, x0, x1, v) ==
    LET ylo == SliceBound(y0, Height(a))
        yhi == SliceBound(y1, Height(a))
        xlo == SliceBound(x0, Width(a))
        xhi == SliceBound(x1, Width(a))
        th  == Max2(yhi - ylo, 0)
        tw  == Max2(xhi - xlo, 0)
    IN  IF ~((Height(v) = th \/ Height(v) = 1) /\ (Width(v) = tw \/ Width(v) = 1))
        THEN Raise(a, "ValueError")
        ELSE Ok([a EXCEPT !.px =
                    [t \in DOMAIN a.px |->
                        IF t[1] >= ylo /\ t[1] < yhi /\ t[2] >= xlo /\ t[2] < xhi
                        THEN v.px[<<IF Height(v) = 1 THEN 0 ELSE t[1] - ylo,
                                    IF Width(v) = 1 THEN 0 ELSE t[2] - xlo>>]
                        ELSE a.px[t]]],
                NoReturn)

-----------------------------------------------------------------------------
(* Mosaics *)

\* BaseImage.get_size() -> <<width, height>>
get_size(i) == <<Width(i.data), Height(i.data)>>

\* BaseImage.get_metadata(): a copy of the metadata dict
get_metadata(i) == i.metadata

\* AstroImage(data_np, metadata=metadata): BaseImage.__init__ stores the array and
\* passes the metadata to update_metadata.
AstroImage(data_np, metadata) ==
    LET i == set_data(NewImage, data_np)
    IN  IF metadata = EmptyDict THEN i ELSE update_metadata(i, metadata).img

\* Orientation test of mosaic_inline: the piece is mirrored on an axis when its
\* corner-to-corner direction differs from the destination's.
NeedsFlip_Never(dest_l, near, far) == FALSE

NeedsFlip(dest_l, near, far) == dest_l # (near < far)

\* The piece oriented to the destination: flipped on each axis where NeedsFlip
\* says so, with the sky position of the corner that is then its first pixel.
Orient(image, ra_l, dec_l) ==
    LET c2    == pixtoradec(image, ToFloat(0), ToFloat(0))
        c3    == pixtoradec(image, ToFloat(get_size(image)[1] - 1),
                                   ToFloat(get_size(image)[2] - 1))
        flipx == NeedsFlip(ra_l, c2[1], c3[1])
        flipy == NeedsFlip(dec_l, c2[2], c3[2])
        data1 == IF flipx THEN fliplr(image.data) ELSE image.data
    IN  [flipx |-> flipx, flipy |-> flipy,
         data  |-> IF flipy THEN flipud(data1) ELSE data1,
         ra    |-> IF flipx THEN c3[1] ELSE c2[1],
         dec   |-> IF flipy THEN c3[2] ELSE c2[2]]

\* x0, y0 = self.radectopix(ra, dec); x0, y0 = int(round(x0)), int(round(y0))
Origin(self, ra, dec) ==
    LET xy == radectopix(self, ra, dec)
    IN  <<IntRound(xy[1]), IntRound(xy[2])>>

\* The guarded copy of the oriented piece o to origin xy.  The result says what
\* was done, for the record of the call: the origin, the flips, whether the copy
\* raised, the array before and after.
PlaceAt(newdata, o, xy) ==
    LET put == SetSlice(newdata, xy[2], xy[2] + Height(o.data),
                                 xy[1], xy[1] + Width(o.data), o.data)
    IN  [x0 |-> xy[1], y0 |-> xy[2], flipx |-> o.flipx, flipy |-> o.flipy,
         raised |-> put.exc # "none", before |-> newdata, after |-> put.img]

PlaceOriented(self, newdata, o) == PlaceAt(newdata, o, Origin(self, o.ra, o.dec))

\* One pass of mosaic_inline's loop
PlaceImage(self, newdata, image, ra_l, dec_l) ==
    PlaceOriented(self, newdata, Orient(image, ra_l, dec_l))

RECURSIVE PlaceAll(_, _, _, _, _, _)

\* The rest of the loop, p being what the pass for imagelist[1] did
PlaceRest(self, imagelist, ra_l, dec_l, log, p) ==
    PlaceAll(self, p.after, Tail(imagelist), ra_l, dec_l, Append(log, p))

\* The loop over imagelist.  A piece whose WCS cannot transform raises out of the
\* loop (pixtoradec is outside the try block); a failed copy is logged and skipped.
PlaceAll(self, newdata, imagelist, ra_l, dec_l, log) ==
    IF imagelist = <<>> THEN [data |-> newdata, exc |-> "none", log |-> log]
    ELSE IF ~HasWcs(imagelist[1]) THEN [data |-> newdata, exc |-> "WCSError", log |-> log]
    ELSE PlaceRest(self, imagelist, ra_l, dec_l, log,
                   PlaceImage(self, newdata, imagelist[1], ra_l, dec_l))

\* What a completed loop leaves in the call's events: the loop's own entries, then
\* the one make_callback('modified') that follows the loop.
RECURSIVE Emissions_PerImage(_)
Emissions_PerImage(done) ==
    IF done = <<>> THEN <<>>
    ELSE <<done[1], "modified">> \o Emissions_PerImage(Tail(done))

Emissions(done) == Append(done, "modified")

\* ra_l = (ra0 < ra1); dec_l = (dec0 < dec1): the destination's own orientation
Orientation(self) ==
    LET c0 == pixtoradec(self, ToFloat(0), ToFloat(0))
        c1 == pixtoradec(self, ToFloat(Width(self.data) - 1), ToFloat(Height(self.data) - 1))
    IN  [ra_l |-> c0[1] < c1[1], dec_l |-> c0[2] < c1[2]]

\* The call's outcome, r being what the loop did.  events lists, in order, what the
\* call did: "placed" or "skipped" per image, "modified" for make_callback('modified').
InlineOutcome(self, r) ==
    [img    |-> [self EXCEPT !.data = r.data],
     exc    |-> r.exc,
     log    |-> r.log,
     events |-> IF r.exc = "none"
                THEN Emissions([k \in DOMAIN r.log |->
                                   IF r.log[k].raised THEN "skipped" ELSE "placed"])
                ELSE [k \in DOMAIN r.log |->
                         IF r.log[k].raised THEN "skipped" ELSE "placed"]]

InlineOriented(self, imagelist, o) ==
    InlineOutcome(self, PlaceAll(self, self.data, imagelist, o.ra_l, o.dec_l, <<>>))

\* self.mosaic_inline(imagelist)
mosaic_inline(self, imagelist) ==
    IF ~HasWcs(self) THEN [img |-> self, exc |-> "WCSError", log |-> <<>>, events |-> <<>>]
    ELSE InlineOriented(self, imagelist, Orientation(self))


\* The four corners of a wd x ht image, in the order the code visits them
Corners(wd, ht) == << <<0, 0>>, <<wd - 1, 0>>, <<wd - 1, ht - 1>>, <<0, ht - 1>> >>

\* A corner of image, as a rounded pixel position in image0's frame
CornerPixel(image0, image, c) ==
    LET rd == pixtoradec(image, ToFloat(c[1]), ToFloat(c[2]))
        xy == radectopix(image0, rd[1], rd[2])
    IN  <<IntRound(xy[1]), IntRound(xy[2])>>

\* The running minimum and maximum over the corners cs of one image
RECURSIVE OverCorners(_, _, _, _)
OverCorners(image0, image, cs, box) ==
    IF cs = <<>> THEN box
    ELSE LET p == CornerPixel(image0, image, cs[1])
         IN  OverCorners(image0, image, Tail(cs),
                         [xmin |-> Min2(box.xmin, p[1]), ymin |-> Min2(box.ymin, p[2]),
                          xmax |-> Max2(box.xmax, p[1]), ymax |-> Max2(box.ymax, p[2])])

\* ... and over all the images
RECURSIVE OverImages(_, _, _)
OverImages(image0, images, box) ==
    IF images = <<>> THEN box
    ELSE LET size == get_size(images[1])
         IN  OverImages(image0, Tail(images),
                        OverCorners(image0, images[1], Corners(size[1], size[2]), box))

\* xmin, ymin, xmax, ymax = 0, 0, 0, 0
ZeroBox == [xmin |-> 0, ymin |-> 0, xmax |-> 0, ymax |-> 0]

\* width, height = xmax-xmin+1, ymax-ymin+1
CanvasSize_NoPlusOne(box) == <<box.xmax - box.xmin, box.ymax - box.ymin>>

CanvasSize(box) == <<box.xmax - box.xmin + 1, box.ymax - box.ymin + 1>>

\* xoff, yoff = abs(min(0, xmin)), abs(min(0, ymin))
Offsets(box) == <<Abs(Min2(0, box.xmin)), Abs(Min2(0, box.ymin))>>

\* image = AstroImage(); image.load_file(filepath), for each file of the list
RECURSIVE LoadAll(_, _)
LoadAll(fs, filelist) ==
    IF filelist = <<>> THEN [exc |-> "none", images |-> <<>>]
    ELSE LET l == load_file(NewImage, fs, filelist[1], NoArg, <<>>)
         IN  IF l.exc # "none" THEN [exc |-> l.exc, images |-> <<>>]
             ELSE IF ~HasWcs(l.img) THEN [exc |-> "WCSError", images |-> <<>>]
             ELSE LET rest == LoadAll(fs, Tail(filelist))
                  IN  [exc |-> rest.exc,
                       images |-> IF rest.exc = "none" THEN <<l.img>> \o rest.images ELSE <<>>]

\* What a mosaic operation did: the extent it computed, the canvas size and offsets
\* it took from it, the image it built, and for each mosaic_inline call it made
\* that call's log and events.
MosaicResult(exc, box, result, calls) ==
    [exc |-> exc, box |-> box, width |-> CanvasSize(box)[1], height |-> CanvasSize(box)[2],
     xoff |-> Offsets(box)[1], yoff |-> Offsets(box)[2], result |-> result, calls |-> calls]

\* for filepath in filelist: mosaic.mosaic_inline([image]) -- m is what the call
\* for images[1] did
RECURSIVE InlineEach(_, _, _)
InlineNext(images, calls, m) ==
    IF m.exc # "none"
    THEN [img |-> m.img, exc |-> m.exc,
          calls |-> Append(calls, [log |-> m.log, events |-> m.events])]
    ELSE InlineEach(m.img, Tail(images), Append(calls, [log |-> m.log, events |-> m.events]))

InlineEach(mosaic, images, calls) ==
    IF images = <<>> THEN [img |-> mosaic, exc |-> "none", calls |-> calls]
    ELSE InlineNext(images, calls, mosaic_inline(mosaic, <<images[1]>>))

\* mosaic = AstroImage(newdata, metadata=image0.get_metadata());
\* mosaic.update_keywords({'NAXIS1': width, 'NAXIS2': height})
EmptyMosaic(image0, width, height) ==
    update_keywords(AstroImage(Zeros(height, width), get_metadata(image0)),
                    <<<<kNAXIS1, width>>, <<kNAXIS2, height>>>>).img

\* The reference pixel moved by the offsets: crpix1 and crpix2 are what
\* get_keyword gave, an exception included.
Relocate(image, crpix1, crpix2, xoff, yoff) ==
    IF crpix1.exc # "none" \/ crpix2.exc # "none" THEN Raise(image, "KeyError")
    ELSE update_keywords(image, <<<<kCRPIX1, crpix1.ret + ToFloat(xoff)>>,
                                  <<kCRPIX2, crpix2.ret + ToFloat(yoff)>>>>)

MosaicPlaced(box, placed) == MosaicResult(placed.exc, box, placed.img, placed.calls)

MosaicRelocated(images, box, m) ==
    IF m.exc # "none" THEN MosaicResult(m.exc, box, m.img, <<>>)
    ELSE MosaicPlaced(box, InlineEach(m.img, images, <<>>))

MosaicOnto(images, box, m) ==
    MosaicRelocated(images, box,
                    Relocate(m, get_keyword(m, kCRPIX1, <<>>), get_keyword(m, kCRPIX2, <<>>),
                             Offsets(box)[1], Offsets(box)[2]))

MosaicBoxed(images, box) ==
    MosaicOnto(images, box, EmptyMosaic(images[1], CanvasSize(box)[1], CanvasSize(box)[2]))

MosaicLoaded(loaded) ==
    IF loaded.exc # "none" THEN MosaicResult(loaded.exc, ZeroBox, NewImage, <<>>)
    ELSE MosaicBoxed(loaded.images, OverImages(loaded.images[1], loaded.images, ZeroBox))

\* self.mosaic(filelist), reading the files from fs: load and measure the files,
\* build the empty mosaic from the first one, move its reference pixel, drop the
\* (reloaded) files in one by one.
mosaic(fs, filelist) ==
    IF filelist = <<>> THEN MosaicResult("IndexError", ZeroBox, NewImage, <<>>)
    ELSE MosaicLoaded(LoadAll(fs, filelist))

\* idxs: for each image the rounded position of its (0, 0) corner in image0's frame
Idxs(image0, images) ==
    [k \in DOMAIN images |-> CornerPixel(image0, images[k], <<0, 0>>)]

\* mosaic1's placement loop: newdata[yi:(yi+ht), xi:(xi+wd)] = data, unguarded --
\* put is what the assignment for images[1] did
RECURSIVE DropEach(_, _, _, _, _)
DropNext(images, idxs, xoff, yoff, put) ==
    IF put.exc # "none" THEN put
    ELSE DropEach(put.img, Tail(images), Tail(idxs), xoff, yoff)

DropEach(newdata, images, idxs, xoff, yoff) ==
    IF images = <<>> THEN Ok(newdata, NoReturn)
    ELSE DropNext(images, idxs, xoff, yoff,
                  SetSlice(newdata, idxs[1][2] + yoff, idxs[1][2] + yoff + get_size(images[1])[2],
                                    idxs[1][1] + xoff, idxs[1][1] + xoff + get_size(images[1])[1],
                                    images[1].data))

Mosaic1Relocated(box, m) == MosaicResult(m.exc, box, m.img, <<>>)

\* cnt stays 0, so every pass of the placement loop takes the metadata and the
\* reference pixel from its image: what remains after the loop is the last one's.
Mosaic1Dropped(image, box, dropped) ==
    IF dropped.exc # "none" THEN MosaicResult(dropped.exc, box, NewImage, <<>>)
    ELSE Mosaic1Relocated(box,
            Relocate(AstroImage(dropped.img, get_metadata(image)),
                     get_keyword(image, kCRPIX1, <<>>), get_keyword(image, kCRPIX2, <<>>),
                     Offsets(box)[1], Offsets(box)[2]))

Mosaic1Boxed(imagelist, box) ==
    Mosaic1Dropped(imagelist[Len(imagelist)], box,
                   DropEach(Zeros(CanvasSize(box)[2], CanvasSize(box)[1]), imagelist,
                            Idxs(imagelist[1], imagelist), Offsets(box)[1], Offsets(box)[2]))

\* self.mosaic1(imagelist)
mosaic1(imagelist) ==
    IF imagelist = <<>> THEN MosaicResult("IndexError", ZeroBox, NewImage, <<>>)
    ELSE IF \E k \in DOMAIN imagelist : ~HasWcs(imagelist[k])
    THEN MosaicResult("WCSError", ZeroBox, NewImage, <<>>)
    ELSE Mosaic1Boxed(imagelist, OverImages(imagelist[1], imagelist, ZeroBox))

-----------------------------------------------------------------------------
(* SpecImage: calls on one image entity *)

\* header values are 1..MaxVal
MaxVal == 2
\* a keyDict passed to update_keywords has at most MaxItems entries
MaxItems == 2
\* calls made on the image in one behaviour
MaxCalls == 3

kRA  == <<"R", "A">>
kDEC == <<"D", "E", "C">>

\* Keywords as callers write them: upper, mixed and lower case.
HeaderKeys == {kRA, <<"R", "a">>, <<"r", "a">>, kDEC}
Vals       == 1..MaxVal

\* keyDict.items() of every dict with at most MaxItems entries, in every order.
RECURSIVE ItemSeqs(_)
ItemSeqs(n) ==
    IF n = 0 THEN {<<>>}
    ELSE LET shorter == ItemSeqs(n - 1)
         IN  shorter \cup
             UNION {{<<<<k, v>>>> \o s : v \in Vals,
                        s \in {t \in shorter : \A j \in DOMAIN t : t[j][1] # k}} :
                    k \in HeaderKeys}

\* An array whose pixels tell their place: base + the index read as a number.
RECURSIVE IndexCode(_)
IndexCode(t) == IF t = <<>> THEN 0 ELSE 10 * IndexCode(SubSeq(t, 1, Len(t) - 1)) + t[Len(t)] + 1

MkArray(shape, base) ==
    [shape |-> shape, px |-> [t \in Indices(shape) |-> base + IndexCode(t)], isnone |-> FALSE]

\* HDUs as pyfits yields them: header keywords are upper case.
hduImage == [data |-> MkArray(<<1, 2>>, 100), isarray |-> TRUE,
             header |-> <<<<kRA, 1>>, <<kDEC, 1>>>>]
hduRow   == [data |-> MkArray(<<2>>, 200), isarray |-> TRUE,
             header |-> <<<<kDEC, 2>>>>]
hduCube  == [data |-> MkArray(<<2, 1, 2>>, 300), isarray |-> TRUE,
             header |-> <<<<kRA, 2>>>>]
hduEmpty == [data |-> NoData, isarray |-> FALSE, header |-> <<<<kRA, 2>>>>]
hduTable == [data |-> MkArray(<<2>>, 400), isarray |-> FALSE, header |-> <<>>]
Hdus     == {hduImage, hduRow, hduCube, hduEmpty, hduTable}

pathGood   == [dir |-> "data", base |-> "good",   ext |-> ".fits"]
pathNoData == [dir |-> "data", base |-> "nodata", ext |-> ".fits"]
pathGone   == [dir |-> "data", base |-> "gone",   ext |-> ".fits"]
pathBad    == [dir |-> "data", base |-> "bad",    ext |-> ".fits"]
Paths      == {pathGood, pathNoData, pathGone, pathBad}

\* What pyfits finds at each path.
Disk ==
    [p \in Paths |->
        CASE p = pathGood   -> [exists |-> TRUE,  verifies |-> TRUE,
                                hdus |-> <<hduEmpty, hduTable, hduCube, hduImage>>]
          [] p = pathNoData -> [exists |-> TRUE,  verifies |-> TRUE,
                                hdus |-> <<hduEmpty, hduTable>>]
          [] p = pathGone   -> [exists |-> FALSE, verifies |-> FALSE, hdus |-> <<>>]
          [] p = pathBad    -> [exists |-> TRUE,  verifies |-> FALSE, hdus |-> <<hduImage>>]]

\* keyDict arguments of update_metadata
MetaDicts ==
    {[x \in {"header"} |-> [k \in {kRA} |-> v]] : v \in Vals}
    \cup {[x \in {"name"} |-> "m31"]}
    \cup {[x \in {"header", "name"} |-> IF x = "name" THEN "m31" ELSE EmptyDict]}

NoCall == [name |-> "init", exc |-> "none", ret |-> NoReturn, pre |-> NewImage,
           kwd |-> <<>>, value |-> 0, items |-> <<>>, n |-> 0]

\* The call returns or raises; either way the image is what the call left.  lastOp
\* keeps the image as it was before a call that raised, and the value get_keyword
\* returned (<<v>>; <<>> for every other call).
Called(name, r, kwd, value, items) ==
    /\ lastOp.n < MaxCalls
    /\ img' = r.img
    /\ lastOp' = [name |-> name, exc |-> r.exc,
                  ret |-> IF name = "get_keyword" /\ r.exc = "none" THEN <<r.ret>> ELSE <<>>,
                  pre |-> IF r.exc = "none" THEN NewImage ELSE img,
                  kwd |-> kwd, value |-> value, items |-> items, n |-> lastOp.n + 1]
    /\ UNCHANGED <<dest, inl, mres, cv, calc, heap>>

GetKeyword ==
    \E kwd \in HeaderKeys, args \in {<<>>, <<0>>} :
        Called("get_keyword", get_keyword(img, kwd, args), kwd, 0, <<>>)

SetKeyword ==
    \E kwd \in HeaderKeys, value \in Vals, create \in BOOLEAN :
        Called("set_keyword", set_keyword(img, kwd, value, create), kwd, value, <<>>)

UpdateKeywords ==
    \E items \in ItemSeqs(MaxItems) :
        Called("update_keywords", update_keywords(img, items), <<>>, 0, items)

SetKeywords ==
    \E items \in ItemSeqs(MaxItems) :
        Called("set_keywords", set_keywords(img, items), <<>>, 0, items)

UpdateMetadata ==
    \E keyDict \in MetaDicts :
        Called("update_metadata", update_metadata(img, keyDict), <<>>, 0, <<>>)

UpdateHdu ==
    \E hdu \in Hdus :
        Called("update_hdu", update_hdu(img, hdu), <<>>, 0, <<>>)

LoadHdu ==
    \E hdu \in Hdus, naxispath \in {<<>>, <<1>>, <<2>>} :
        Called("load_hdu", load_hdu(img, hdu, naxispath), <<>>, 0, <<>>)

LoadFile ==
    \E filepath \in Paths, numhdu \in {NoArg, <<0>>, <<3>>, <<4>>} :
        Called("load_file", load_file(img, Disk, filepath, numhdu, <<>>), <<>>, 0, <<>>)

InitImage ==
    /\ img = NewImage
    /\ lastOp = NoCall
    /\ dest = NewImage
    /\ inl = <<>>
    /\ mres = <<>>
    /\ cv = <<>>
    /\ calc = <<>>
    /\ heap = <<>>

NextImage ==
    \/ GetKeyword
    \/ SetKeyword
    \/ UpdateKeywords
    \/ SetKeywords
    \/ UpdateMetadata
    \/ UpdateHdu
    \/ LoadHdu
    \/ LoadFile

SpecImage == InitImage /\ [][NextImage]_vars

-----------------------------------------------------------------------------
(* Claims on the image entity (SpecImage) *)

\* The header the image holds now (get_header's view of it).
CurrentHeader(i) ==
    IF "header" \in DOMAIN i.metadata THEN i.metadata["header"] ELSE EmptyDict

MetadataMutators ==
    {"set_keyword", "set_keywords", "update_keywords", "update_metadata", "update_hdu"}

\* C1: after a metadata-mutating call (set_keyword, set_keywords, update_keywords,
\* update_metadata, update_hdu) has returned, the header the WCS adapter was last
\* loaded from equals the image's current header: the WCS is never stale.
C1_WcsNeverStale ==
    (lastOp.name \in MetadataMutators /\ lastOp.exc = "none")
        => img.wcs = CurrentHeader(img)

\* The entries of keyDict.items() whose value is the one left stored under its
\* upper-cased key: no later entry of the loop writes the same header key.
LastWritten(items) ==
    {j \in DOMAIN items :
        \A m \in (j + 1)..Len(items) : Upper(items[m][1]) # Upper(items[j][1])}

\* get_keyword(k2) returns v for every spelling k2 of kwd, whatever its letter case.
ReadableInAnyCase(i, kwd, v) ==
    \A k2 \in HeaderKeys :
        Upper(k2) = Upper(kwd) =>
            LET g == get_keyword(i, k2, <<>>) IN g.exc = "none" /\ g.ret = v

\* C2: header keywords are case-insensitive: after set_keyword(k, v) or
\* update_keywords({k: v}) has stored v, get_keyword(k2) returns v for every k2
\* equal to k up to letter case, k as the caller wrote it included.
C2_KeywordsCaseInsensitive ==
    /\ (lastOp.name = "set_keyword" /\ lastOp.exc = "none")
            => ReadableInAnyCase(img, lastOp.kwd, lastOp.value)
    /\ (lastOp.name = "update_keywords" /\ lastOp.exc = "none")
            => \A j \in LastWritten(lastOp.items) :
                    ReadableInAnyCase(img, lastOp.items[j][1], lastOp.items[j][2])

\* C9: load_hdu, load_file and update_hdu are atomic on failure: when the call
\* raises, pixel array, header keywords, other metadata (path, keyorder, name) and
\* WCS are those of the image before the call.
C9_FailedLoadLeavesImageUnchanged ==
    (lastOp.name \in {"load_hdu", "load_file", "update_hdu"} /\ lastOp.exc # "none")
        => img = lastOp.pre

-----------------------------------------------------------------------------
(* FITS files of sky tiles, for the mosaic operations *)

Half == Unit \div 2

\* A tile: wd x ht pixels, whose pixel footprint starts at (dx, dy) in the frame of
\* its field (field position = pixels east and north of the field centre), stored
\* with RA growing (fx = 1) or falling (fx = -1) along x and Dec likewise along y.
Tile(id, wd, ht, dx, dy, fx, fy) ==
    [id |-> id, wd |-> wd, ht |-> ht, dx |-> dx, dy |-> dy, fx |-> fx, fy |-> fy]

TileCatalogue ==
    ("ref"    :> Tile(1, 2, 2, ToFloat(0),  ToFloat(0),  1,  1)) @@
    ("east"   :> Tile(2, 2, 2, ToFloat(2),  ToFloat(0),  1,  1)) @@
    ("west"   :> Tile(3, 2, 2, ToFloat(-2), ToFloat(0),  1,  1)) @@
    ("north"  :> Tile(4, 2, 2, ToFloat(0),  ToFloat(2),  1,  1)) @@
    ("diag"   :> Tile(5, 2, 2, ToFloat(1),  ToFloat(-1), 1,  1)) @@
    ("far"    :> Tile(6, 2, 2, ToFloat(-3), ToFloat(0),  1,  1)) @@
    ("mirx"   :> Tile(7, 2, 2, ToFloat(2),  ToFloat(0),  -1, 1)) @@
    ("miry"   :> Tile(8, 2, 2, ToFloat(0),  ToFloat(0),  1,  -1)) @@
    ("mirxy"  :> Tile(9, 2, 2, ToFloat(-2), ToFloat(0),  -1, -1)) @@
    ("half"   :> Tile(10, 2, 2, ToFloat(1) + Half, ToFloat(0), 1, 1)) @@
    ("dot"    :> Tile(11, 1, 1, ToFloat(-2), ToFloat(0), 1,  1)) @@
    ("strip"  :> Tile(12, 3, 1, ToFloat(1),  ToFloat(1), -1, 1))

TileNames == DOMAIN TileCatalogue

\* The field centres: one on the RA = 0 / 360 seam, one away from it.
FieldRA == ("seam" :> ToFloat(0)) @@ ("field" :> ToFloat(100))
Fields  == DOMAIN FieldRA

\* The primary HDU of a tile's file
TileHdu(t, ra0) ==
    [data    |-> MkArray(<<t.ht, t.wd>>, 100 * t.id),
     isarray |-> TRUE,
     header  |-> << <<kNAXIS1, t.wd>>, <<kNAXIS2, t.ht>>,
                    <<kCRPIX1, IF t.fx = 1 THEN -t.dx ELSE t.dx + ToFloat(t.wd - 1)>>,
                    <<kCRPIX2, IF t.fy = 1 THEN -t.dy ELSE t.dy + ToFloat(t.ht - 1)>>,
                    <<kCRVAL1, ra0>>, <<kCRVAL2, ToFloat(0)>>,
                    <<kCDELT1, t.fx>>, <<kCDELT2, t.fy>>,
                    <<kOBJECT, t.id>> >>]

\* An image file without the projection keywords
hduNoWcs == [data |-> MkArray(<<2, 2>>, 9000), isarray |-> TRUE,
             header |-> << <<kNAXIS1, 2>>, <<kNAXIS2, 2>>, <<kOBJECT, 90>> >>]

TilePath(dir, base) == [dir |-> dir, base |-> base, ext |-> ".fits"]

OtherNames == {"nowcs", "gone"}

MosaicDisk ==
    [p \in {TilePath(dir, base) : dir \in Fields, base \in TileNames \cup OtherNames} |->
        IF p.base = "gone" THEN [exists |-> FALSE, verifies |-> FALSE, hdus |-> <<>>]
        ELSE IF p.base = "nowcs" THEN [exists |-> TRUE, verifies |-> TRUE, hdus |-> <<hduNoWcs>>]
        ELSE [exists |-> TRUE, verifies |-> TRUE,
              hdus |-> <<TileHdu(TileCatalogue[p.base], FieldRA[p.dir])>>]]

\* Every list of at most n of the names
RECURSIVE NameLists(_, _)
NameLists(names, n) ==
    IF n = 0 THEN {<<>>}
    ELSE LET shorter == NameLists(names, n - 1)
         IN  shorter \cup {<<b>> \o s : b \in names, s \in shorter}

\* The image a caller gets by loading a file
Loaded(path) == load_file(NewImage, MosaicDisk, path, NoArg, <<>>).img

-----------------------------------------------------------------------------
(* SpecInline: mosaic_inline called on a destination image *)

\* the caller has at most MaxImages images to drop into the destination
MaxImages == 2

\* The pieces callers drop into the destination
InlineNames == {"ref", "east", "west", "far", "mirx", "miry", "mirxy", "half", "dot", "nowcs"}

\* The destinations: mosaics built from these file lists
CanvasLists == { <<"ref", "east">>, <<"mirx", "ref">>, <<"ref", "west">> }

PathsOf(dir, names) == [k \in DOMAIN names |-> TilePath(dir, names[k])]

ImagesOf(dir, names) == [k \in DOMAIN names |-> Loaded(TilePath(dir, names[k]))]

\* The call just made: the files of its imagelist, how it ended, its log and events;
\* todo are the files the caller has still to drop.
InlineCall(dir, todo, called, names, m) ==
    [dir |-> dir, todo |-> todo, called |-> called, names |-> names,
     exc |-> m.exc, log |-> m.log, events |-> m.events]

NoInline(dir, todo) ==
    InlineCall(dir, todo, FALSE, <<>>, [exc |-> "none", log |-> <<>>, events |-> <<>>])

\* canvas.mosaic_inline(imagelist), imagelist being the next n of the images to drop
MosaicInline ==
    \E n \in 0..Len(inl.todo) :
        LET names == SubSeq(inl.todo, 1, n)
            m     == mosaic_inline(dest, ImagesOf(inl.dir, names))
        IN  /\ dest' = m.img
            /\ inl' = InlineCall(inl.dir, SubSeq(inl.todo, n + 1, Len(inl.todo)), TRUE, names, m)
            /\ UNCHANGED <<img, lastOp, mres, cv, calc, heap>>

InitInline ==
    /\ \E dir \in Fields, names \in CanvasLists, todo \in NameLists(InlineNames, MaxImages) :
          /\ dest = mosaic(MosaicDisk, PathsOf(dir, names)).result
          /\ inl = NoInline(dir, todo)
    /\ img = NewImage
    /\ lastOp = NoCall
    /\ mres = <<>>
    /\ cv = <<>>
    /\ calc = <<>>
    /\ heap = <<>>

NextInline == MosaicInline

SpecInline == InitInline /\ [][NextInline]_vars

-----------------------------------------------------------------------------
(* Claims on mosaic_inline (SpecInline) *)

\* The images of the call just made, in the order of its log
CalledImages == ImagesOf(inl.dir, inl.names)

\* The origin computed for a piece lies outside the array a
OutsideCanvas(e, a) ==
    e.x0 < 0 \/ e.y0 < 0 \/ e.x0 >= Width(a) \/ e.y0 >= Height(a)

\* C3: in mosaic_inline an image whose projected origin (x0, y0) lies outside the
\* destination (x0 or y0 negative, or at or beyond the width / height) is skipped
\* without raising: the destination's pixels are what they were before that image
\* was tried, and the rest of the list is still gone through.
C3_OutsideOriginIsSkipped ==
    inl.called =>
        /\ \A k \in DOMAIN inl.log :
              OutsideCanvas(inl.log[k], inl.log[k].before)
                  => /\ inl.log[k].after = inl.log[k].before
                     /\ inl.log[k].raised
        /\ inl.exc = "none" => Len(inl.log) = Len(inl.names)

\* C4: every mosaic_inline call that returns emits 'modified' exactly once, after
\* the last image of the list was placed or skipped, whatever the length of the
\* list and whether or not placements failed.
C4_ModifiedOnceAfterLastImage ==
    (inl.called /\ inl.exc = "none") =>
        /\ Len(inl.events) = Len(inl.names) + 1
        /\ inl.events[Len(inl.events)] = "modified"
        /\ \A k \in 1..Len(inl.names) : inl.events[k] \in {"placed", "skipped"}

\* A returned call of two images, one placed and one skipped, then 'modified'
C4_Witness ==
    /\ inl.called /\ inl.exc = "none" /\ Len(inl.names) = 2
    /\ \E j, k \in 1..2 : inl.events[j] = "placed" /\ inl.events[k] = "skipped"
    /\ inl.events[3] = "modified"

Sgn(v) == IF v > 0 THEN 1 ELSE IF v < 0 THEN -1 ELSE 0

\* The corner-to-corner sky direction of image i: the signs of (far - near) in RA
\* and in Dec, far being the corner opposite pixel (0, 0).
SkyDirection(i) ==
    LET near == pixtoradec(i, ToFloat(0), ToFloat(0))
        far  == pixtoradec(i, ToFloat(Width(i.data) - 1), ToFloat(Height(i.data) - 1))
    IN  <<Sgn(far[1] - near[1]), Sgn(far[2] - near[2])>>

\* The piece was placed: its origin is a pixel of the destination and the copy went through.
Placed(e) == ~e.raised /\ ~OutsideCanvas(e, e.before)

\* The block of a at (x0, y0) is image's array, mirrored horizontally when mx and
\* vertically when my.
BlockIs(a, x0, y0, image, mx, my) ==
    \A y \in 0..(Height(image.data) - 1), x \in 0..(Width(image.data) - 1) :
        a.px[<<y0 + y, x0 + x>>] =
            image.data.px[<<IF my THEN Height(image.data) - 1 - y ELSE y,
                            IF mx THEN Width(image.data) - 1 - x ELSE x>>]

\* C8: when mosaic_inline places an image whose corner-to-corner sky direction
\* differs in sign from the destination's on an axis, the block written is the
\* source mirrored along exactly the differing axes (RA: horizontally, Dec:
\* vertically), at the destination pixel of the corner that the mirroring makes
\* the origin; when the signs agree on both axes it is the source as it is, at the
\* destination pixel of its (0, 0) corner.
C8_FlippedAlongDisagreeingAxes ==
    inl.called =>
        \A k \in DOMAIN inl.log :
            LET image == CalledImages[k]
                mx    == SkyDirection(dest)[1] # SkyDirection(image)[1]
                my    == SkyDirection(dest)[2] # SkyDirection(image)[2]
                at    == CornerPixel(dest, image,
                                     <<IF mx THEN Width(image.data) - 1 ELSE 0,
                                       IF my THEN Height(image.data) - 1 ELSE 0>>)
            IN  Placed(inl.log[k]) =>
                    /\ inl.log[k].x0 = at[1] /\ inl.log[k].y0 = at[2]
                    /\ BlockIs(inl.log[k].after, at[1], at[2], image, mx, my)

\* A two-pixel-wide piece mirrored on both axes, placed, changing the destination
C8_Witness ==
    /\ inl.called
    /\ \E k \in DOMAIN inl.log :
          /\ Placed(inl.log[k])
          /\ Width(CalledImages[k].data) > 1 /\ Height(CalledImages[k].data) > 1
          /\ SkyDirection(dest)[1] # SkyDirection(CalledImages[k])[1]
          /\ SkyDirection(dest)[2] # SkyDirection(CalledImages[k])[2]
          /\ inl.log[k].after # inl.log[k].before

-----------------------------------------------------------------------------
(* SpecMosaic: mosaic and mosaic1, applied to a list of files *)

\* a filelist / imagelist has at most MaxFiles entries
MaxFiles == 2

\* The call to come (name "init") or the call made, on the files names of dir
MosaicCall(name, dir, names, r) == [name |-> name, dir |-> dir, names |-> names, r |-> r]

NoResult == MosaicResult("none", ZeroBox, NewImage, <<>>)

Mosaic ==
    /\ mres.name = "init"
    /\ mres' = MosaicCall("mosaic", mres.dir, mres.names,
                          mosaic(MosaicDisk, PathsOf(mres.dir, mres.names)))
    /\ UNCHANGED <<img, lastOp, dest, inl, cv, calc, heap>>

\* mosaic1 takes images: the caller has loaded them, so every file is readable.
Mosaic1 ==
    /\ mres.name = "init"
    /\ \A k \in DOMAIN mres.names : mres.names[k] # "gone"
    /\ mres' = MosaicCall("mosaic1", mres.dir, mres.names,
                          mosaic1(ImagesOf(mres.dir, mres.names)))
    /\ UNCHANGED <<img, lastOp, dest, inl, cv, calc, heap>>

InitMosaic ==
    /\ \E dir \in Fields, names \in NameLists(TileNames \cup OtherNames, MaxFiles) :
          mres = MosaicCall("init", dir, names, NoResult)
    /\ img = NewImage
    /\ lastOp = NoCall
    /\ dest = NewImage
    /\ inl = <<>>
    /\ cv = <<>>
    /\ calc = <<>>
    /\ heap = <<>>

NextMosaic ==
    \/ Mosaic
    \/ Mosaic1

SpecMosaic == InitMosaic /\ [][NextMosaic]_vars

-----------------------------------------------------------------------------
(* Claims on mosaic and mosaic1 (SpecMosaic) *)

\* The images of the call: what loading each file of the list gives
MosaicImages == ImagesOf(mres.dir, mres.names)

\* The call got as far as measuring its images: the list is not empty and every
\* file is a readable image with a WCS.
Measured ==
    /\ mres.name \in {"mosaic", "mosaic1"}
    /\ mres.names # <<>>
    /\ \A k \in DOMAIN mres.names : mres.names[k] \in TileNames

SetMin(S) == CHOOSE m \in S : \A n \in S : m <= n
SetMax(S) == CHOOSE m \in S : \A n \in S : m >= n

\* 0 and the rounded positions, in the first image's frame, of the four corners of
\* every image: axis 1 is x, axis 2 is y.
CornerPositions(images, axis) ==
    {0} \cup UNION { { CornerPixel(images[1], images[k], c)[axis] :
                          c \in { <<0, 0>>, <<Width(images[k].data) - 1, 0>>,
                                  <<Width(images[k].data) - 1, Height(images[k].data) - 1>>,
                                  <<0, Height(images[k].data) - 1>> } } :
                      k \in DOMAIN images }

\* Where pixel (0, 0) of image b lies in image a's frame, unrounded
OriginIn(a, b) ==
    LET rd == pixtoradec(b, ToFloat(0), ToFloat(0))
    IN  radectopix(a, rd[1], rd[2])

\* b is a's size and orientation, exactly one image-width to one side of a
OneWidthAside(a, b) ==
    /\ get_size(a) = get_size(b)
    /\ a.wcs[kCDELT1] = b.wcs[kCDELT1] /\ a.wcs[kCDELT2] = b.wcs[kCDELT2]
    /\ OriginIn(a, b) \in { <<ToFloat(Width(a.data)), 0>>, <<-ToFloat(Width(a.data)), 0>> }

\* C5: the canvas allocated by mosaic and by mosaic1 is xmax-xmin+1 wide and
\* ymax-ymin+1 high, the minima and maxima running over 0 and the rounded positions
\* in the reference frame of the four corners of every image; two w x h images, the
\* second exactly one width east of the first and not rotated, give 2w x h on
\* whichever side the second falls.
C5_CanvasSpansTheCorners ==
    Measured =>
        LET xs == CornerPositions(MosaicImages, 1)
            ys == CornerPositions(MosaicImages, 2)
        IN  /\ mres.r.width = SetMax(xs) - SetMin(xs) + 1
            /\ mres.r.height = SetMax(ys) - SetMin(ys) + 1
            /\ mres.r.exc = "none" => mres.r.result.data.shape = <<mres.r.height, mres.r.width>>
            /\ (Len(mres.names) = 2 /\ OneWidthAside(MosaicImages[1], MosaicImages[2]))
                   => /\ mres.r.width = 2 * Width(MosaicImages[1].data)
                      /\ mres.r.height = Height(MosaicImages[1].data)

\* A mosaic of two images side by side, the second on the negative side of the first
C5_Witness ==
    /\ Measured /\ mres.r.exc = "none"
    /\ Len(mres.names) = 2 /\ OneWidthAside(MosaicImages[1], MosaicImages[2])
    /\ mres.r.xoff > 0
    /\ mres.r.result.data.shape = <<2, 4>>

\* image differs from image0 by a whole number of pixels and/or an axis flip only
ShiftedOrFlipped(image0, image) ==
    /\ get_size(image) = get_size(image0)
    /\ OriginIn(image0, image)[1] % Unit = 0
    /\ OriginIn(image0, image)[2] % Unit = 0

\* Where the block of image k belongs in the canvas: the least corner position in
\* the reference frame, moved by the offsets.
BlockOrigin(images, k, axis, off) ==
    SetMin({ CornerPixel(images[1], images[k], c)[axis] :
                c \in { <<0, 0>>, <<Width(images[k].data) - 1, Height(images[k].data) - 1>> } })
    + off

\* Canvas pixel (y, x) belongs to the block of image k
InBlock(images, k, y, x, xoff, yoff) ==
    /\ x >= BlockOrigin(images, k, 1, xoff)
    /\ x < BlockOrigin(images, k, 1, xoff) + Width(images[k].data)
    /\ y >= BlockOrigin(images, k, 2, yoff)
    /\ y < BlockOrigin(images, k, 2, yoff) + Height(images[k].data)

\* The pixel of image k that canvas pixel (y, x) of its block shows, image k being
\* mirrored on the axes where its CDELT differs from the reference image's
SourcePixel(images, k, y, x, xoff, yoff) ==
    LET bx == x - BlockOrigin(images, k, 1, xoff)
        by == y - BlockOrigin(images, k, 2, yoff)
    IN  images[k].data.px[
            <<IF images[k].wcs[kCDELT2] # images[1].wcs[kCDELT2]
                  THEN Height(images[k].data) - 1 - by ELSE by,
              IF images[k].wcs[kCDELT1] # images[1].wcs[kCDELT1]
                  THEN Width(images[k].data) - 1 - bx ELSE bx>>]

\* C6: in a mosaic of files that differ from the reference only by a whole-pixel
\* translation and/or an axis flip, the shift by (abs(min(0,xmin)), abs(min(0,ymin)))
\* makes every placement succeed: each block [x0, x0+w) x [y0, y0+h) that inline
\* placement computes lies inside the canvas, and the finished canvas holds every
\* source block, where no other block overlaps it, pixel for pixel.
C6_EveryPlacementFits ==
    (/\ Measured /\ mres.name = "mosaic"
     /\ \A k \in DOMAIN mres.names : ShiftedOrFlipped(MosaicImages[1], MosaicImages[k]))
    =>
    /\ mres.r.exc = "none"
    /\ \A k \in DOMAIN mres.names :
          LET e == mres.r.calls[k].log[1]
          IN  /\ ~e.raised
              /\ e.x0 >= 0 /\ e.x0 + Width(MosaicImages[k].data) <= mres.r.width
              /\ e.y0 >= 0 /\ e.y0 + Height(MosaicImages[k].data) <= mres.r.height
    /\ \A k \in DOMAIN mres.names :
          \A y \in 0..(mres.r.height - 1), x \in 0..(mres.r.width - 1) :
              (/\ InBlock(MosaicImages, k, y, x, mres.r.xoff, mres.r.yoff)
               /\ \A j \in DOMAIN mres.names :
                     j # k => ~InBlock(MosaicImages, j, y, x, mres.r.xoff, mres.r.yoff))
              => mres.r.result.data.px[<<y, x>>]
                     = SourcePixel(MosaicImages, k, y, x, mres.r.xoff, mres.r.yoff)

\* The header of image i
HeaderOf(i) == i.metadata["header"]

\* C7: the image a mosaic operation returns (mosaic from files, mosaic1 from
\* images) has the header of the base (first) image except for CRPIX1 and CRPIX2,
\* which are the base image's plus xOffset and yOffset; no other keyword is added
\* or changed.
C7_HeaderIsBasePlusOffsets ==
    (Measured /\ mres.r.exc = "none") =>
        HeaderOf(mres.r.result) =
            [HeaderOf(MosaicImages[1]) EXCEPT
                ![kCRPIX1] = @ + ToFloat(mres.r.xoff),
                ![kCRPIX2] = @ + ToFloat(mres.r.yoff)]

-----------------------------------------------------------------------------
(* Canvases: CanvasMixin over CompoundMixin and Callbacks *)

\* The objects of the model: three canvases and a plain shape, which is no canvas
\* and has no 'modified' callback.
Canvases == {"A", "B", "C"}
Shapes   == {"S"}
Objects  == Canvases \cup Shapes

\* add calls made in one behaviour
MaxAdds == 2
\* nested make_callback calls the interpreter's stack allows
MaxDepth == 4

\* tag=None, tagpfx=None
NoTag == <<>>

\* '%d' % n
Digits == <<"0", "1", "2", "3", "4", "5", "6", "7", "8", "9">>

RECURSIVE FormatInt(_)
FormatInt(n) ==
    IF n < 10 THEN <<Digits[n + 1]>>
    ELSE FormatInt(n \div 10) \o <<Digits[(n % 10) + 1]>>

\* The canvases as constructed: no tags, count 0, no objects, no callbacks
\* registered; no call in progress.  stack holds the make_callback calls in
\* progress, innermost last: the emitter and the index of its next callback.
\* emitted counts the emissions since the outermost one began.
NewCanvases ==
    [tags      |-> [c \in Canvases |-> EmptyDict],
     count     |-> [c \in Canvases |-> 0],
     objects   |-> [c \in Canvases |-> <<>>],
     callbacks |-> [c \in Canvases |-> <<>>],
     tag       |-> [o \in Objects |-> NoTag],
     stack     |-> <<>>,
     emitted   |-> 0,
     exc       |-> "none",
     adds      |-> 0]

\* obj.has_callback('modified'): canvases enable it in __init__
has_callback(obj) == obj \in Canvases

\* emitter.make_callback('modified', whence) / make_callback_nochildren: the call
\* begins, its callbacks are then invoked one by one.  A call nested deeper than
\* the interpreter allows raises RuntimeError, which no frame catches.
make_callback(s, emitter) ==
    IF Len(s.stack) >= MaxDepth
    THEN [s EXCEPT !.stack = <<>>, !.exc = "RuntimeError"]
    ELSE [s EXCEPT !.stack = Append(@, [obj |-> emitter, pc |-> 1]),
                   !.emitted = @ + 1]

make_callback_nochildren(s, emitter) == make_callback(s, emitter)

update_canvas(s, self) == make_callback(s, self)

redraw(s, self) == make_callback(s, self)

\* The guard of subcanvas_updated_cb
IsSubcanvas(self, canvas) == canvas # self

subcanvas_updated_cb(s, self, canvas) ==
    IF IsSubcanvas(self, canvas) THEN make_callback_nochildren(s, self) ELSE s

\* obj.add_callback('modified', self.subcanvas_updated_cb)
add_callback(s, obj, self) ==
    IF has_callback(obj) THEN [s EXCEPT !.callbacks[obj] = Append(@, self)] ELSE s

\* The tag add gives the object: the caller's, or one made from the count
MakeTag(tag, tagpfx, count) ==
    IF tag # NoTag THEN tag
    ELSE IF tagpfx # NoTag THEN tagpfx \o FormatInt(count)
    ELSE <<"@">> \o FormatInt(count)

\* add after its checks: tag the object, list it, subscribe to it, redraw
AddTagged(s, self, obj, tag, do_redraw) ==
    IF do_redraw
    THEN update_canvas(add_callback([s EXCEPT !.tag[obj] = tag,
                                              !.tags[self] = DictSet(@, tag, obj),
                                              !.objects[self] = Append(@, obj)],
                                    obj, self),
                       self)
    ELSE add_callback([s EXCEPT !.tag[obj] = tag,
                                !.tags[self] = DictSet(@, tag, obj),
                                !.objects[self] = Append(@, obj)],
                      obj, self)

\* self.add(obj, tag, tagpfx, redraw=do_redraw), s being the state with self.count
\* already incremented
AddCounted(s, self, obj, tag, tagpfx, do_redraw) ==
    IF tag # NoTag /\ tag \in DOMAIN s.tags[self] THEN [s EXCEPT !.exc = "CanvasError"]
    ELSE IF tag = NoTag /\ tagpfx # NoTag /\ StartsWith(tagpfx, <<"@">>)
    THEN [s EXCEPT !.exc = "CanvasError"]
    ELSE AddTagged(s, self, obj, MakeTag(tag, tagpfx, s.count[self]), do_redraw)

add(s, self, obj, tag, tagpfx, do_redraw) ==
    AddCounted([s EXCEPT !.count[self] = @ + 1, !.exc = "none", !.emitted = 0,
                         !.adds = @ + 1],
               self, obj, tag, tagpfx, do_redraw)

-----------------------------------------------------------------------------
(* SpecCanvas: adds and redraws, and the delivery of 'modified' *)

\* Calls are made from outside only when none is in progress.
Idle == cv.stack = <<>>

Add ==
    /\ Idle
    /\ cv.adds < MaxAdds
    /\ \E self \in Canvases, obj \in Objects, do_redraw \in BOOLEAN,
          t \in { <<NoTag, NoTag>>, << <<"t">>, NoTag >>, <<NoTag, <<"p">> >>,
                  <<NoTag, <<"@", "p">> >> } :
          cv' = add(cv, self, obj, t[1], t[2], do_redraw)
    /\ UNCHANGED <<img, lastOp, dest, inl, mres, calc, heap>>

Redraw ==
    /\ Idle
    /\ \E self \in Canvases : cv' = redraw([cv EXCEPT !.exc = "none", !.emitted = 0], self)
    /\ UNCHANGED <<img, lastOp, dest, inl, mres, calc, heap>>

UpdateCanvas ==
    /\ Idle
    /\ \E self \in Canvases :
          cv' = update_canvas([cv EXCEPT !.exc = "none", !.emitted = 0], self)
    /\ UNCHANGED <<img, lastOp, dest, inl, mres, calc, heap>>

\* The innermost make_callback in progress
Top == cv.stack[Len(cv.stack)]

\* It invokes its next callback: the subcanvas_updated_cb of the canvas that
\* subscribed, with the emitter as canvas
InvokeCallback ==
    /\ ~Idle
    /\ Top.pc <= Len(cv.callbacks[Top.obj])
    /\ cv' = subcanvas_updated_cb([cv EXCEPT !.stack[Len(cv.stack)].pc = @ + 1],
                                  cv.callbacks[Top.obj][Top.pc], Top.obj)
    /\ UNCHANGED <<img, lastOp, dest, inl, mres, calc, heap>>

\* It has invoked them all and returns
ReturnFromCallback ==
    /\ ~Idle
    /\ Top.pc > Len(cv.callbacks[Top.obj])
    /\ cv' = [cv EXCEPT !.stack = SubSeq(@, 1, Len(@) - 1)]
    /\ UNCHANGED <<img, lastOp, dest, inl, mres, calc, heap>>

InitCanvas ==
    /\ cv = NewCanvases
    /\ img = NewImage
    /\ lastOp = NoCall
    /\ dest = NewImage
    /\ inl = <<>>
    /\ mres = <<>>
    /\ calc = <<>>
    /\ heap = <<>>

NextCanvas ==
    \/ Add
    \/ Redraw
    \/ UpdateCanvas
    \/ InvokeCallback
    \/ ReturnFromCallback

SpecCanvas == InitCanvas /\ [][NextCanvas]_vars

-----------------------------------------------------------------------------
(* Claims on canvases (SpecCanvas) *)

\* C10: notification propagation never loops.  Whatever was built with add (a
\* canvas in itself, two canvases in each other, a child added twice, deeper
\* nesting), one 'modified' emission causes finitely many emissions -- the delivery
\* never runs out of stack -- and no canvas emits again while an emission of its
\* own is still being delivered, that is in response to a notification that began
\* with itself.
C10_PropagationNeverLoops ==
    /\ cv.exc # "RuntimeError"
    /\ \A i, j \in DOMAIN cv.stack : i # j => cv.stack[i].obj # cv.stack[j].obj

-----------------------------------------------------------------------------
(* Calculations on sky coordinates: dispos and get_RaDecOffsets             *)
(*                                                                         *)
(* A Python float is a number on a decimal grid of Prec steps per unit, and *)
(* every arithmetic operation and every function of the math module returns *)
(* the grid value nearest to its result, as binary64 arithmetic returns the *)
(* nearest double.  Products and quotients are therefore rounded, and       *)
(* sin(x)*sin(x) + cos(x)*cos(x) is 1 only up to that rounding, on the grid *)
(* as in binary64.                                                         *)

\* Steps of the grid per unit
Prec == 1000

\* The float of the integer n
F(n) == n * Prec

\* a / b for integers, b > 0, rounded to the nearest integer
RoundDiv(a, b) ==
    IF a >= 0 THEN (2 * a + b) \div (2 * b) ELSE -((2 * (-a) + b) \div (2 * b))

\* a * b of two floats; the product is taken by parts to stay within 32 bits
fmul(a, b) ==
    LET neg == (a < 0) # (b < 0)
        m   == (Abs(a) \div Prec) * Abs(b) + RoundDiv((Abs(a) % Prec) * Abs(b), Prec)
    IN  IF neg THEN -m ELSE m

\* a / b of two floats, b # 0
fdiv(a, b) ==
    LET q == RoundDiv(Abs(a) * Prec, Abs(b))
    IN  IF (a < 0) # (b < 0) THEN -q ELSE q

\* math.pi
math_pi == 3142

\* math.fabs
math_fabs(x) == Abs(x)

\* The series x - x^3/3! + x^5/5! - ... summed from the term t of order k on
RECURSIVE SinSeries(_, _, _)
SinSeries(t, x, k) ==
    IF t = 0 THEN 0
    ELSE t + SinSeries(-RoundDiv(fmul(fmul(t, x), x), (k + 1) * (k + 2)), x, k + 2)

\* math.sin of x >= 0, x <= 2 pi
SinPos(x) ==
    IF 2 * x <= math_pi THEN SinSeries(x, x, 1)
    ELSE IF x <= math_pi THEN SinSeries(math_pi - x, math_pi - x, 1)
    ELSE IF 2 * (x - math_pi) <= math_pi THEN -SinSeries(x - math_pi, x - math_pi, 1)
    ELSE -SinSeries(2 * math_pi - x, 2 * math_pi - x, 1)

\* math.sin
math_sin(x) == IF x >= 0 THEN SinPos(x) ELSE -SinPos(-x)

\* The series 1 - x^2/2! + x^4/4! - ... is SinSeries from the term 1 of order 0
CosPos(x) ==
    IF 2 * x <= math_pi THEN SinSeries(F(1), x, 0)
    ELSE IF x <= math_pi THEN -SinSeries(F(1), math_pi - x, 0)
    ELSE IF 2 * (x - math_pi) <= math_pi THEN -SinSeries(F(1), x - math_pi, 0)
    ELSE SinSeries(F(1), 2 * math_pi - x, 0)

\* math.cos
math_cos(x) == CosPos(Abs(x))

\* The least d in lo..hi with cos(d) <= v, cos falling from lo to hi
RECURSIVE AcosIn(_, _, _)
AcosIn(v, lo, hi) ==
    IF lo >= hi THEN lo
    ELSE LET mid == (lo + hi) \div 2
         IN  IF math_cos(mid) <= v THEN AcosIn(v, lo, mid) ELSE AcosIn(v, mid + 1, hi)

\* math.acos of v in [-1, 1]: the angle in [0, pi] whose cosine is v.  Outside
\* [-1, 1] math.acos raises ValueError, which its callers test for.
math_acos(v) == AcosIn(v, 0, math_pi)

\* math.radians
math_radians(deg) == fdiv(fmul(deg, math_pi), F(180))

\* What a calculation gives: the exception that left it, or the tuple it returned
Returns(ret) == [exc |-> "none", ret |-> ret]
Fails(exc) == [exc |-> exc, ret |-> <<>>]

\* dist > 0.0000004: the bound is above the arccosine of a cosine that rounding
\* has left just below 1 (binary64: 1 - 2^-53 gives 1.5e-8) and below the distance
\* of any two points that differ.  On the grid, where rounding leaves the cosine
\* within a few steps of 1, the bound that has this place is a tenth of a radian.
DistThreshold == 100

\* dispos: the position angle, once dist > 0.0000004 and sind are known
Bearing(sd0, sd, cd0, cd, cosda, sinda, radian, sind) ==
    LET cospa0 == fdiv(fmul(sd, cd0) - fmul(fmul(cd, sd0), cosda), sind)
        cospa  == IF math_fabs(cospa0) > F(1) THEN fdiv(cospa0, math_fabs(cospa0)) ELSE cospa0
        sinpa  == fdiv(fmul(cd, sinda), sind)
        phi    == fmul(math_acos(cospa), radian)
    IN  IF sinpa < 0 THEN F(360) - phi ELSE phi

\* dispos: the two special cases of the centre's declination, and the return
DisposPole(decd0, phi, dist) ==
    Returns(<<IF decd0 = -F(90) THEN 0 ELSE IF decd0 = F(90) THEN F(180) ELSE phi, dist>>)

\* dispos from dist on
DisposDist(decd0, sd0, sd, cd0, cd, cosda, sinda, radian, dist) ==
    IF dist > DistThreshold
    THEN IF math_sin(dist) = 0 THEN Fails("ZeroDivisionError")
         ELSE DisposPole(decd0,
                         Bearing(sd0, sd, cd0, cd, cosda, sinda, radian, math_sin(dist)),
                         fmul(fmul(dist, radian), F(60)))
    ELSE DisposPole(decd0, 0, fmul(fmul(dist, radian), F(60)))

\* dispos from the sines and cosines on
DisposTrig(decd0, sd0, sd, cd0, cd, cosda, sinda, radian) ==
    LET cosd == fmul(sd0, sd) + fmul(fmul(cd0, cd), cosda)
    IN  IF math_fabs(cosd) > F(1) THEN Fails("ValueError")
        ELSE DisposDist(decd0, sd0, sd, cd0, cd, cosda, sinda, radian, math_acos(cosd))

\* dispos from the angles in radians on
DisposRad(decd0, alf, alf0, del_, del0, radian) ==
    DisposTrig(decd0, math_sin(del0), math_sin(del_), math_cos(del0), math_cos(del_),
               math_cos(alf - alf0), math_sin(alf - alf0), radian)

\* AstroImage.dispos(dra0, decd0, dra, decd) -> (phi, dist)
dispos(dra0, decd0, dra, decd) ==
    LET radian == fdiv(F(180), math_pi)
    IN  DisposRad(decd0, fdiv(dra, radian), fdiv(dra0, radian),
                  fdiv(decd, radian), fdiv(decd0, radian), radian)

\* get_RaDecOffsets with the RA difference left as it is, unwrapped
RaDelta_Unwrapped(delta_ra_deg, adj) == fmul(delta_ra_deg, adj)

\* get_RaDecOffsets: the three branches on delta_ra_deg
RaDelta(delta_ra_deg, adj) ==
    IF delta_ra_deg > F(180) THEN fmul(delta_ra_deg - F(360), adj)
    ELSE IF delta_ra_deg < -F(180) THEN fmul(delta_ra_deg + F(360), adj)
    ELSE fmul(delta_ra_deg, adj)

\* AstroImage.get_RaDecOffsets(ra1_deg, dec1_deg, ra2_deg, dec2_deg)
get_RaDecOffsets(ra1_deg, dec1_deg, ra2_deg, dec2_deg) ==
    Returns(<<RaDelta(ra1_deg - ra2_deg, math_cos(math_radians(dec2_deg))),
              dec1_deg - dec2_deg>>)

-----------------------------------------------------------------------------
(* cutout_cross *)

\* data[i] with an integer i on an axis of length n: a negative i counts from the
\* end; -1 stands for IndexError.
IndexOn(i, n) == IF i >= n \/ i < -n THEN -1 ELSE IF i < 0 THEN i + n ELSE i

\* The 1-D array data[y, lo:hi] as a sequence
RowSlice(data, y, lo, hi) ==
    LET a == SliceBound(lo, Width(data))
        b == SliceBound(hi, Width(data))
    IN  [i \in 1..(b - a) |-> data.px[<<y, a + i - 1>>]]

\* The 1-D array data[lo:hi, x] as a sequence
ColSlice(data, x, lo, hi) ==
    LET a == SliceBound(lo, Height(data))
        b == SliceBound(hi, Height(data))
    IN  [i \in 1..(b - a) |-> data.px[<<a + i - 1, x>>]]

\* What cutout_cross gives: (x0, y0, xarr, yarr), or the exception
CutReturns(x0, y0, xarr, yarr) == [exc |-> "none", ret |-> <<x0, y0>>, xarr |-> xarr, yarr |-> yarr]
CutFails(exc) == [exc |-> exc, ret |-> <<>>, xarr |-> <<>>, yarr |-> <<>>]

\* cutout_cross once the bounds of the two cuts are known
CutBetween(data, x, y, x0, x1, y0, y1) ==
    IF IndexOn(y, Height(data)) = -1 \/ IndexOn(x, Width(data)) = -1
    THEN CutFails("IndexError")
    ELSE CutReturns(x0, y0,
                    RowSlice(data, IndexOn(y, Height(data)), x0, x1 + 1),
                    ColSlice(data, IndexOn(x, Width(data)), y0, y1 + 1))

\* cutout_cross with the two cuts left unclipped
cutout_cross_Unclipped(data, x, y, radius) ==
    CutBetween(data, x, y, x - radius, x + radius, y - radius, y + radius)

\* AstroImage.cutout_cross(x, y, radius) on an image whose array is data
cutout_cross(data, x, y, radius) ==
    CutBetween(data, x, y,
               Max2(0, x - radius), Min2(Width(data) - 1, x + radius),
               Max2(0, y - radius), Min2(Height(data) - 1, y + radius))

-----------------------------------------------------------------------------
(* SpecCalc: the calculations, each applied once to arguments drawn at the   *)
(* start                                                                    *)

\* The largest radius of a cut
MaxRadius == 5

\* Right ascensions and declinations in degrees: the seam at 0 / 360, the half
\* circle and its neighbours, both poles
SkyRAs  == {F(0), F(1), F(180), F(181), F(359)}
SkyDecs == {-F(90), -F(45), F(0), F(30), F(60), F(90)}

\* Image sizes <<wd, ht>>
CutSizes == {<<1, 1>>, <<3, 2>>, <<2, 4>>, <<20, 20>>}

\* The array of a wd x ht image whose pixel (x, y) holds 100 y + x
CutData(wd, ht) ==
    [shape |-> <<ht, wd>>, px |-> [t \in Indices(<<ht, wd>>) |-> 100 * t[1] + t[2]],
     isnone |-> FALSE]

\* A calculation not yet made, on the arguments args
ToCall(kind, args) ==
    [name |-> "init", kind |-> kind, args |-> args,
     exc |-> "none", ret |-> <<>>, xarr |-> <<>>, yarr |-> <<>>]

\* The calculation name made on calc.args, and its outcome r
CalcCall(name, r) ==
    [name |-> name, kind |-> calc.kind, args |-> calc.args,
     exc |-> r.exc, ret |-> r.ret, xarr |-> <<>>, yarr |-> <<>>]

Dispos ==
    /\ calc.name = "init" /\ calc.kind = "sky"
    /\ calc' = CalcCall("dispos", dispos(calc.args[1], calc.args[2], calc.args[3], calc.args[4]))
    /\ UNCHANGED <<img, lastOp, dest, inl, mres, cv, heap>>

GetRaDecOffsets ==
    /\ calc.name = "init" /\ calc.kind = "sky"
    /\ calc' = CalcCall("get_RaDecOffsets",
                        get_RaDecOffsets(calc.args[1], calc.args[2], calc.args[3], calc.args[4]))
    /\ UNCHANGED <<img, lastOp, dest, inl, mres, cv, heap>>

CutoutCross ==
    /\ calc.name = "init" /\ calc.kind = "cut"
    /\ LET r == cutout_cross(CutData(calc.args[1], calc.args[2]),
                             calc.args[3], calc.args[4], calc.args[5])
       IN  calc' = [CalcCall("cutout_cross", r) EXCEPT !.xarr = r.xarr, !.yarr = r.yarr]
    /\ UNCHANGED <<img, lastOp, dest, inl, mres, cv, heap>>

InitCalc ==
    /\ \/ \E ra0 \in SkyRAs, dec0 \in SkyDecs, ra \in SkyRAs, dec \in SkyDecs :
             calc = ToCall("sky", <<ra0, dec0, ra, dec, 0>>)
       \/ \E sz \in CutSizes :
             \E x \in -1..sz[1], y \in -1..sz[2], radius \in 0..MaxRadius :
                calc = ToCall("cut", <<sz[1], sz[2], x, y, radius>>)
    /\ img = NewImage
    /\ lastOp = NoCall
    /\ dest = NewImage
    /\ inl = <<>>
    /\ mres = <<>>
    /\ cv = <<>>
    /\ heap = <<>>

NextCalc ==
    \/ Dispos
    \/ GetRaDecOffsets
    \/ CutoutCross

SpecCalc == InitCalc /\ [][NextCalc]_vars

-----------------------------------------------------------------------------
(* Claims about the calculations *)

\* C11: for every point (ra0, dec0) = (ra, dec), the poles at declination +90 and
\* -90 included, dispos returns distance 0 and bearing 0.
C11_SamePointIsZeroAway ==
    (/\ calc.name = "dispos"
     /\ calc.args[1] = calc.args[3] /\ calc.args[2] = calc.args[4])
        => /\ calc.exc = "none"
           /\ calc.ret = <<0, 0>>

\* The call was cutout_cross at a pixel inside the image
CutInside ==
    /\ calc.name = "cutout_cross"
    /\ calc.args[3] \in 0..(calc.args[1] - 1)
    /\ calc.args[4] \in 0..(calc.args[2] - 1)

\* The sequence s is the values 100 y + x of the pixels from (x, y) on, one step
\* of (dx, dy) apart, up to the n-th
IsRun(s, n, x, y, dx, dy) ==
    /\ Len(s) = n
    /\ \A i \in 1..n : s[i] = 100 * (y + (i - 1) * dy) + (x + (i - 1) * dx)

\* C12: for a pixel (x, y) inside a w x h image and a radius r >= 0, cutout_cross
\* returns x0 = max(0, x - r), y0 = max(0, y - r), the row y over the columns
\* max(0, x - r) .. min(w - 1, x + r) and the column x over the rows
\* max(0, y - r) .. min(h - 1, y + r); at (0, 0) with r = 5 on a 20 x 20 image
\* both cuts are the indices 0 .. 5.
C12_CutsAreClippedToTheImage ==
    CutInside =>
        LET w  == calc.args[1]
            h  == calc.args[2]
            x  == calc.args[3]
            y  == calc.args[4]
            r  == calc.args[5]
            xl == IF x - r > 0 THEN x - r ELSE 0
            xh == IF x + r < w - 1 THEN x + r ELSE w - 1
            yl == IF y - r > 0 THEN y - r ELSE 0
            yh == IF y + r < h - 1 THEN y + r ELSE h - 1
        IN  /\ calc.exc = "none"
            /\ calc.ret = <<xl, yl>>
            /\ IsRun(calc.xarr, xh - xl + 1, xl, y, 1, 0)
            /\ IsRun(calc.yarr, yh - yl + 1, x, yl, 0, 1)
            /\ calc.args = <<20, 20, 0, 0, 5>>
                   => /\ calc.xarr = <<0, 1, 2, 3, 4, 5>>
                      /\ calc.yarr = <<0, 100, 200, 300, 400, 500>>

\* The cut at the corner (0, 0) of the 20 x 20 image with radius 5
C12_Witness ==
    /\ CutInside
    /\ calc.args = <<20, 20, 0, 0, 5>>
    /\ Len(calc.xarr) = 6 /\ Len(calc.yarr) = 6

\* C13: get_RaDecOffsets wraps the RA difference across the 0 / 360 seam: for ra1,
\* ra2 in [0, 360) and dec2 = 0 the RA delta returned is in [-180, 180] and
\* congruent to ra1 - ra2 modulo 360, and the Dec delta is dec1 - dec2; for
\* (359, 0, 1, 0) the RA delta has magnitude 2, not 358.
C13_RaDeltaWrapsAtTheSeam ==
    (calc.name = "get_RaDecOffsets" /\ calc.args[4] = F(0)) =>
        /\ calc.exc = "none"
        /\ calc.ret[1] >= -F(180) /\ calc.ret[1] <= F(180)
        /\ (calc.ret[1] - (calc.args[1] - calc.args[3])) % F(360) = 0
        /\ calc.ret[2] = calc.args[2] - calc.args[4]
        /\ (calc.args[1] = F(359) /\ calc.args[3] = F(1))
               => Abs(calc.ret[1]) = F(2)

\* The offsets from (1, 0) to (359, 0), across the seam
C13_Witness ==
    /\ calc.name = "get_RaDecOffsets"
    /\ calc.args = <<F(359), F(0), F(1), F(0), 0>>
    /\ calc.ret = <<-F(2), F(0)>>

-----------------------------------------------------------------------------
(* Two images and the objects they refer to: copy and transfer               *)
(*                                                                         *)
(* Here an image holds references: data is the place in arr of its numpy    *)
(* array, hdr the place in dict of the dictionary stored under              *)
(* metadata['header'] (0 when there is none), meta the rest of its          *)
(* metadata.  Two images with the same hdr share one dictionary, and an     *)
(* assignment hdr[k] = v made through either shows in both.                 *)

\* The original and the image copy() returns
HeapNames == {"orig", "copy"}

\* No image object yet
NoObject == [live |-> FALSE, data |-> 0, meta |-> EmptyDict, hdr |-> 0, wcs |-> EmptyDict]

\* The image n as a value: what its references point to
Deref(h, n) ==
    LET o == h.image[n]
    IN  [data     |-> IF o.data = 0 THEN NoData ELSE h.arr[o.data],
         metadata |-> IF o.hdr = 0 THEN o.meta ELSE DictSet(o.meta, "header", h.dict[o.hdr]),
         wcs      |-> o.wcs]

\* A method that leaves image n as the value i2 has assigned into the dictionary
\* n refers to (hdr[k] = v), or, n having none, has stored a new one (get_header
\* with create); the array of n is not touched.
Mutated(h, n, i2) ==
    LET o == h.image[n]
    IN  IF "header" \notin DOMAIN i2.metadata
        THEN [h EXCEPT !.image[n] = [o EXCEPT !.meta = i2.metadata, !.wcs = i2.wcs]]
        ELSE IF o.hdr = 0
        THEN [h EXCEPT !.dict = Append(@, i2.metadata["header"]),
                       !.image[n] = [o EXCEPT !.hdr = Len(h.dict) + 1,
                                              !.meta = DictDel(i2.metadata, "header"),
                                              !.wcs = i2.wcs]]
        ELSE [h EXCEPT !.dict[o.hdr] = i2.metadata["header"],
                       !.image[n] = [o EXCEPT !.meta = DictDel(i2.metadata, "header"),
                                              !.wcs = i2.wcs]]

\* n.update_data(data_np): set_data(data_np.copy()), a new array of n's own
HeapUpdateData(h, n, data_np) ==
    [h EXCEPT !.arr = Append(@, data_np), !.image[n].data = Len(h.arr) + 1]

\* other.update_metadata(self.metadata): every value of self.metadata is assigned
\* to the same key of other.metadata, the dictionary under 'header' among them;
\* then get_header() and the reload of the WCS adapter.
HeapUpdateMetadata(h, self, other) ==
    LET s  == h.image[self]
        h1 == [h EXCEPT !.image[other].meta = DictUpdate(@, s.meta),
                        !.image[other].hdr = IF s.hdr # 0 THEN s.hdr ELSE @]
        g  == get_header(Deref(h1, other), TRUE)
    IN  Mutated(h1, other, wcs_load_header(g.img, g.ret))

\* self.transfer(other)
transfer(h, self, other) ==
    HeapUpdateMetadata(HeapUpdateData(h, other, h.arr[h.image[self].data]), self, other)

\* self.copy(): other = AstroImage(data) refers to the array of self until
\* transfer gives it its own.
copy(h, self, other) ==
    transfer([h EXCEPT !.image[other] = [NoObject EXCEPT !.live = TRUE,
                                                        !.data = h.image[self].data]],
             self, other)

-----------------------------------------------------------------------------
(* SpecCopy: an image, its copy, and updates of either                      *)

\* calls made on the two images in one behaviour
MaxHeapCalls == 3

\* The arrays given to update_data
NewArrays == {MkArray(<<1, 2>>, 500), MkArray(<<2, 1>>, 600)}

\* The header keywords and the pixel array of image n
HeaderAndPixels(h, n) ==
    LET i == Deref(h, n)
    IN  [header |-> IF "header" \in DOMAIN i.metadata THEN i.metadata["header"] ELSE EmptyDict,
         pixels |-> i.data]

\* The heap after the call op on image target, which left it as h
HeapCalled(op, target, h) ==
    [arr |-> h.arr, dict |-> h.dict, image |-> h.image,
     last |-> [op |-> op, target |-> target, n |-> heap.last.n + 1,
               copied |-> heap.image["copy"].live,
               pre |-> [n \in HeapNames |-> HeaderAndPixels(heap, n)]]]

\* The heap holding the image i as "orig" and nothing else
HeapOf(i) ==
    LET h0 == [arr |-> <<i.data>>, dict |-> <<>>,
               image |-> [n \in HeapNames |-> IF n = "orig" THEN [NoObject EXCEPT !.live = TRUE, !.data = 1]
                                               ELSE NoObject]]
        h1 == Mutated(h0, "orig", i)
    IN  [arr |-> h1.arr, dict |-> h1.dict, image |-> h1.image,
         last |-> [op |-> "init", target |-> "orig", n |-> 0, copied |-> FALSE,
                   pre |-> [n \in HeapNames |-> HeaderAndPixels(h1, n)]]]

Copy ==
    /\ heap.last.n < MaxHeapCalls
    /\ ~heap.image["copy"].live
    /\ heap' = HeapCalled("copy", "orig", copy(heap, "orig", "copy"))
    /\ UNCHANGED <<img, lastOp, dest, inl, mres, cv, calc>>

SetKeywordOn ==
    /\ heap.last.n < MaxHeapCalls
    /\ \E n \in HeapNames, kwd \in HeaderKeys, value \in Vals :
          /\ heap.image[n].live
          /\ heap' = HeapCalled("set_keyword", n,
                                Mutated(heap, n, set_keyword(Deref(heap, n), kwd, value, TRUE).img))
    /\ UNCHANGED <<img, lastOp, dest, inl, mres, cv, calc>>

UpdateKeywordsOn ==
    /\ heap.last.n < MaxHeapCalls
    /\ \E n \in HeapNames, items \in ItemSeqs(1) :
          /\ heap.image[n].live
          /\ heap' = HeapCalled("update_keywords", n,
                                Mutated(heap, n, update_keywords(Deref(heap, n), items).img))
    /\ UNCHANGED <<img, lastOp, dest, inl, mres, cv, calc>>

UpdateDataOn ==
    /\ heap.last.n < MaxHeapCalls
    /\ \E n \in HeapNames, data_np \in NewArrays :
          /\ heap.image[n].live
          /\ heap' = HeapCalled("update_data", n, HeapUpdateData(heap, n, data_np))
    /\ UNCHANGED <<img, lastOp, dest, inl, mres, cv, calc>>

\* The original is an image loaded from an HDU, or one made of an array alone
InitCopy ==
    /\ \E i \in {load_hdu(NewImage, hduImage, NoArg).img,
                 update_data(NewImage, hduImage.data).img} :
          heap = HeapOf(i)
    /\ img = NewImage
    /\ lastOp = NoCall
    /\ dest = NewImage
    /\ inl = <<>>
    /\ mres = <<>>
    /\ cv = <<>>
    /\ calc = <<>>

NextCopy ==
    \/ Copy
    \/ SetKeywordOn
    \/ UpdateKeywordsOn
    \/ UpdateDataOn

SpecCopy == InitCopy /\ [][NextCopy]_vars

-----------------------------------------------------------------------------
(* Claims about copy *)

\* C15: the image copy() returns is independent of the original: a set_keyword,
\* update_keywords or pixel update made on the copy leaves the header keywords
\* and the pixel array of the original as they were, and one made on the original
\* leaves those of the copy as they were.
C15_CopyIsIndependent ==
    (/\ heap.last.copied
     /\ heap.last.op \in {"set_keyword", "update_keywords", "update_data"})
        => \A n \in HeapNames \ {heap.last.target} :
              HeaderAndPixels(heap, n) = heap.last.pre[n]

-----------------------------------------------------------------------------
(* Canvases: deletion of objects *)

\* list.remove(obj): the list without the first obj it holds
RECURSIVE RemoveFirst(_, _)
RemoveFirst(objects, obj) ==
    IF objects = <<>> THEN <<>>
    ELSE IF objects[1] = obj THEN Tail(objects)
    ELSE <<objects[1]>> \o RemoveFirst(Tail(objects), obj)

\* deleteObjectsByTag: the loop.  A tag the canvas does not have raises KeyError
\* and an object CompoundMixin.deleteObject does not find raises too; both are
\* caught and the loop goes on.
RECURSIVE DeleteEachTag(_, _, _)
DeleteEachTag(s, self, tags) ==
    IF tags = <<>> THEN s
    ELSE IF tags[1] \notin DOMAIN s.tags[self] THEN DeleteEachTag(s, self, Tail(tags))
    ELSE DeleteEachTag([s EXCEPT !.tags[self] = DictDel(@, tags[1]),
                                 !.objects[self] = RemoveFirst(@, s.tags[self][tags[1]])],
                       self, Tail(tags))

\* self.deleteObjectsByTag(tags, redraw=do_redraw)
deleteObjectsByTag(s, self, tags, do_redraw) ==
    IF do_redraw THEN update_canvas(DeleteEachTag(s, self, tags), self)
    ELSE DeleteEachTag(s, self, tags)

\* self.deleteObjectByTag(tag, redraw=do_redraw)
deleteObjectByTag(s, self, tag, do_redraw) == deleteObjectsByTag(s, self, <<tag>>, do_redraw)

\* self.deleteAllObjects(redraw=do_redraw)
deleteAllObjects(s, self, do_redraw) ==
    IF do_redraw
    THEN update_canvas([s EXCEPT !.tags[self] = EmptyDict, !.objects[self] = <<>>], self)
    ELSE [s EXCEPT !.tags[self] = EmptyDict, !.objects[self] = <<>>]

\* The tags of self in an order in which items() may give them
RECURSIVE TagOrders(_)
TagOrders(tagset) ==
    IF tagset = {} THEN {<<>>}
    ELSE UNION {{<<t>> \o rest : rest \in TagOrders(tagset \ {t})} : t \in tagset}

\* deleteObjects: the loop over self.tags.items(), given as the sequence items of
\* the tags in the order of the iteration.  Where items() is a list (Python 2) the
\* loop visits them all; where it is a view of the dictionary (Python 3) the
\* iteration raises RuntimeError at the step after the first deletion.
RECURSIVE DeleteEachObject(_, _, _, _, _)
DeleteEachObject(s, self, items, objects, isview) ==
    IF items = <<>> THEN s
    ELSE IF s.tags[self][items[1]] \notin objects
    THEN DeleteEachObject(s, self, Tail(items), objects, isview)
    ELSE IF isview
    THEN [deleteObjectByTag(s, self, items[1], FALSE) EXCEPT !.exc = "RuntimeError"]
    ELSE DeleteEachObject(deleteObjectByTag(s, self, items[1], FALSE),
                          self, Tail(items), objects, isview)

\* self.deleteObjects(objects, redraw=do_redraw)
deleteObjects(s, self, items, objects, isview, do_redraw) ==
    LET d == DeleteEachObject(s, self, items, objects, isview)
    IN  IF d.exc = "none" /\ do_redraw THEN update_canvas(d, self) ELSE d

\* self.deleteObject(obj, redraw=do_redraw)
deleteObject(s, self, items, obj, isview, do_redraw) ==
    deleteObjects(s, self, items, {obj}, isview, do_redraw)

-----------------------------------------------------------------------------
(* SpecTags: adds and deletions on canvases, and the delivery of 'modified'  *)

\* The canvases that objects are added to and deleted from, and those objects
TagCanvases == {"A", "B"}
TagObjects  == {"B", "C", "S"}

\* tag and tagpfx as callers give them: neither, a tag that a prefix and a count
\* can also give, a tag of the form the canvas makes up, a prefix, a prefix
\* that is refused
TagArgs ==
    { <<NoTag, NoTag>>, << <<"p", "2">>, NoTag >>, << <<"@", "2">>, NoTag >>,
      <<NoTag, <<"p">> >>, <<NoTag, <<"@">> >> }

\* The tags a caller may ask to delete
TagNames == { <<"p", "1">>, <<"p", "2">>, <<"@", "1">>, <<"@", "2">> }

\* The state a call from outside begins in
Calling == [cv EXCEPT !.exc = "none", !.emitted = 0]

AddTo ==
    /\ Idle
    /\ cv.adds < MaxAdds
    /\ \E self \in TagCanvases, obj \in TagObjects, do_redraw \in BOOLEAN, t \in TagArgs :
          cv' = add(cv, self, obj, t[1], t[2], do_redraw)
    /\ UNCHANGED <<img, lastOp, dest, inl, mres, calc, heap>>

DeleteObjectByTag ==
    /\ Idle
    /\ \E self \in TagCanvases, tag \in TagNames, do_redraw \in BOOLEAN :
          cv' = deleteObjectByTag(Calling, self, tag, do_redraw)
    /\ UNCHANGED <<img, lastOp, dest, inl, mres, calc, heap>>

DeleteObject ==
    /\ Idle
    /\ \E self \in TagCanvases, obj \in TagObjects, isview \in BOOLEAN, do_redraw \in BOOLEAN :
          \E items \in TagOrders(DOMAIN cv.tags[self]) :
             cv' = deleteObject(Calling, self, items, obj, isview, do_redraw)
    /\ UNCHANGED <<img, lastOp, dest, inl, mres, calc, heap>>

DeleteAllObjects ==
    /\ Idle
    /\ \E self \in TagCanvases, do_redraw \in BOOLEAN :
          cv' = deleteAllObjects(Calling, self, do_redraw)
    /\ UNCHANGED <<img, lastOp, dest, inl, mres, calc, heap>>

\* An object that is a canvas is modified and says so
Modified ==
    /\ Idle
    /\ \E obj \in TagObjects \cap Canvases : cv' = redraw(Calling, obj)
    /\ UNCHANGED <<img, lastOp, dest, inl, mres, calc, heap>>

NextTags ==
    \/ AddTo
    \/ DeleteObjectByTag
    \/ DeleteObject
    \/ DeleteAllObjects
    \/ Modified
    \/ InvokeCallback
    \/ ReturnFromCallback

SpecTags == InitCanvas /\ [][NextTags]_vars

-----------------------------------------------------------------------------
(* Claims on tags and deletion (SpecTags) *)

\* The tags of canvas c under which object o is stored
TagsOf(c, o) == {t \in DOMAIN cv.tags[c] : cv.tags[c][t] = o}

\* The objects canvas c holds
Held(c) == {cv.objects[c][k] : k \in DOMAIN cv.objects[c]}

\* C14: after any sequence of add and delete calls on a canvas (tags given by the
\* caller, made from a prefix, or made up as '@N'), every object the canvas holds
\* is reachable through exactly one tag, and no add replaces the object stored
\* under a tag in use: an add raises CanvasError or stores under a tag that was
\* free.
C14_OneTagPerObject ==
    /\ [](\A c \in Canvases : \A o \in Held(c) : Cardinality(TagsOf(c, o)) = 1)
    /\ [][\A c \in Canvases : \A t \in DOMAIN cv.tags[c] :
              t \in DOMAIN cv'.tags[c] => cv'.tags[c][t] = cv.tags[c][t]]_vars

\* C16: a canvas emits 'modified' again for a child's 'modified' only while the
\* child is on the canvas, and once for each notification of the child: after the
\* child is removed a 'modified' from it makes the canvas emit nothing, and
\* adding, deleting and adding the child again does not make the canvas emit
\* more than once for one notification.
C16_EmitsOncePerHeldChild ==
    \A k \in 2..Len(cv.stack) :
        LET self   == cv.stack[k].obj
            child  == cv.stack[k - 1].obj
            called == cv.stack[k - 1].pc - 1
        IN  /\ child \in Held(self)
            /\ \A j \in 1..(called - 1) : cv.callbacks[child][j] # self

=============================================================================
